---- MODULE Spec2Model ----
(***************************************************************************)
(* A model of the cotati drawing DSL and of the pipeline that consumes it. *)
(*                                                                         *)
(*   - descriptions (crates/dsl/src/dsl/drawing.rs, text.rs): string       *)
(*     leaves, animated(name), closures, tuples, and the closures returned *)
(*     by Appliable::apply / WithContent::with_content;                    *)
(*   - Graphic::draw, which linearises a description into the Generator's  *)
(*     instruction log;                                                    *)
(*   - the pipeline of crates/dsl/tests/dsl.rs (draw, compile, execute).   *)
(*                                                                         *)
(* The Generator's primitives and the Device (compile / execute) are not   *)
(* among the modelled source files; they follow the written specification. *)
(***************************************************************************)
EXTENDS Integers, Sequences, FiniteSets, TLC

\* ------------------------------------------------------------------ bounds

\* Largest number of descriptions held at once while authoring, which is
\* also the largest tuple arity the model builds.
MaxPool == 3
\* Largest number of nodes (leaves, closures, tuples, wrappers) in the pool.
MaxNodes == 4
\* Arity of the widest tuple the tuple_drawing! / tuple_appliable! macros
\* implement (A0 .. A39).
MaxTupleArity == 40

\* ------------------------------------------------------------------ values

StrLeaves == {"a", "b"}          \* &str literals
StringLeaves == {"hello"}        \* owned String values
RegisterNames == {"r1", "r2"}    \* names handed to animated(..)

Font1 == [k |-> "Font", id |-> "font1"]
Font2 == [k |-> "Font", id |-> "font2"]
Layout1 == [k |-> "TextLayout", id |-> "layout1"]
Text1 == [k |-> "Text", id |-> "text1"]
Span1 == [k |-> "TextSpan", id |-> "span1"]

Fonts == {Font1, Font2}
TextLayouts == {Layout1}
Texts == {Text1}
TextSpans == {Span1}

AttrTuple(items) == [k |-> "tuple", items |-> items]

\* The attribute arguments handed to apply(..): single scope values and
\* tuples of them (a tuple of Appliables is Appliable, so tuples nest).
Attrs ==
    Fonts \cup TextLayouts \cup
    { AttrTuple(<<Font1, Layout1>>),
      AttrTuple(<<Font1, Font2, Layout1>>),
      AttrTuple(<<AttrTuple(<<Font1, Font2>>), Layout1>>) }

Parents == Texts \cup TextSpans

\* ------------------------------------------------------------ instructions

IRString(s) == [op |-> "String", s |-> s, n |-> 0]
IRAnimated(name) == [op |-> "Animated", s |-> name, n |-> 0]
ScopeOpen(w) == [op |-> "Open", s |-> w.id, n |-> 0]
ScopeClose(n) == [op |-> "Pop", s |-> "", n |-> n]

\* ---------------------------------------------------------------- Generator

EmptyGenerator == << >>

push(g, ir) == Append(g, ir)

push_from(g, w) == Append(g, ScopeOpen(w))

pop(g, n) == Append(g, ScopeClose(n))

\* ------------------------------------------------------------- descriptions

StrGraphic(s) == [k |-> "str", s |-> s]
StringGraphic(s) == [k |-> "String", s |-> s]

\* animated(name): a closure that pushes IR::Animated(name).
animated(name) == [k |-> "animated", name |-> name]

\* A hand-written closure FnOnce(&mut G): its body is a list of Generator
\* calls.
FnGraphic(body) == [k |-> "fn", body |-> body]
CallPushFrom(w) == [call |-> "push_from", w |-> w, n |-> 0]
CallPop(n) == [call |-> "pop", w |-> Font1, n |-> n]

FnBodies ==
    { <<CallPushFrom(Font1)>>,
      <<CallPop(1)>>,
      <<CallPushFrom(Font1), CallPushFrom(Layout1), CallPop(2)>> }

TupleGraphic(items) == [k |-> "tuple", items |-> items]

\* The closures returned by the four wrapper impls of text.rs capture the
\* wrapper value (self) and the inner graphic.
FontApply(self, graphic) == [k |-> "FontApply", self |-> self, graphic |-> graphic]
TextLayoutApply(self, graphic) ==
    [k |-> "TextLayoutApply", self |-> self, graphic |-> graphic]
TextWithContent(self, graphic) ==
    [k |-> "TextWith", self |-> self, graphic |-> graphic]
TextSpanWithContent(self, graphic) ==
    [k |-> "TextSpanWith", self |-> self, graphic |-> graphic]

RECURSIVE AppliableApply(_, _)
RECURSIVE TupleApplyFrom(_, _, _)

\* tuple_appliable!: let graphic = A0.apply(graphic); let graphic =
\* A1.apply(graphic); ... ; graphic
TupleApplyFrom(items, i, graphic) ==
    IF i > Len(items) THEN graphic
    ELSE TupleApplyFrom(items, i + 1, AppliableApply(items[i], graphic))

TupleApply(items, graphic) == TupleApplyFrom(items, 1, graphic)

\* Appliable::apply, dispatched on the implementing type.
AppliableApply(a, graphic) ==
    CASE a.k = "Font" -> FontApply(a, graphic)
      [] a.k = "TextLayout" -> TextLayoutApply(a, graphic)
      [] a.k = "tuple" -> TupleApply(a.items, graphic)

\* pub fn apply(attrs, target) = attrs.apply(target)
apply(attrs, target) == AppliableApply(attrs, target)

\* WithContent::with_content, dispatched on the implementing type.
WithContentOf(parent, graphic) ==
    CASE parent.k = "Text" -> TextWithContent(parent, graphic)
      [] parent.k = "TextSpan" -> TextSpanWithContent(parent, graphic)

\* pub fn with(parent, content) = parent.with_content(content)
with(parent, content) == WithContentOf(parent, content)

\* --------------------------------------------------------------------- draw

RECURSIVE draw(_, _)
RECURSIVE DrawTupleFrom(_, _, _)
RECURSIVE CallFnFrom(_, _, _)

\* Graphic for F: FnOnce(&mut G): self(g). The body's calls run in order.
CallFnFrom(body, i, g) ==
    IF i > Len(body) THEN g
    ELSE CallFnFrom(body, i + 1,
                    IF body[i].call = "push_from" THEN push_from(g, body[i].w)
                    ELSE pop(g, body[i].n))

DrawFn(d, g) == CallFnFrom(d.body, 1, g)

DrawString(d, g) == push(g, IRString(d.s))

\* Mutant: the instruction replaces the log instead of being appended to it.
DrawStr_Overwrite(d, g) == <<IRString(d.s)>>

DrawStr(d, g) == push(g, IRString(d.s))

\* Mutant: animated pushes its name as a text leaf.
DrawAnimated_AsString(d, g) == push(g, IRString(d.name))

DrawAnimated(d, g) == push(g, IRAnimated(d.name))

\* tuple_drawing!: A0.draw(render); A1.draw(render); ...
DrawTupleFrom(items, i, g) ==
    IF i > Len(items) THEN g
    ELSE DrawTupleFrom(items, i + 1, draw(items[i], g))

\* Mutant: the macro forgets $header.draw(render).
DrawTuple_SkipHeader(d, g) == DrawTupleFrom(d.items, 2, g)

DrawTuple(d, g) == DrawTupleFrom(d.items, 1, g)

\* Mutant: the scope is closed before the inner graphic is drawn.
DrawFontApply_PopBeforeDraw(d, g) == draw(d.graphic, pop(push_from(g, d.self), 1))

\* Mutant: the closure closes two levels.
DrawTextLayoutApply_Pop2(d, g) == pop(draw(d.graphic, push_from(g, d.self)), 2)

\* Mutant: the closure forgets g.pop(1).
DrawTextWith_NoPop(d, g) == draw(d.graphic, push_from(g, d.self))

\* The closure bodies of text.rs: g.push_from(self); graphic.draw(g); g.pop(1)
DrawFontApply(d, g) == pop(draw(d.graphic, push_from(g, d.self)), 1)

DrawTextLayoutApply(d, g) == pop(draw(d.graphic, push_from(g, d.self)), 1)

DrawTextWith(d, g) == pop(draw(d.graphic, push_from(g, d.self)), 1)

DrawTextSpanWith(d, g) == pop(draw(d.graphic, push_from(g, d.self)), 1)

\* Graphic::draw, dispatched on the implementing type.
draw(d, g) ==
    CASE d.k = "str" -> DrawStr(d, g)
      [] d.k = "String" -> DrawString(d, g)
      [] d.k = "animated" -> DrawAnimated(d, g)
      [] d.k = "fn" -> DrawFn(d, g)
      [] d.k = "tuple" -> DrawTuple(d, g)
      [] d.k = "FontApply" -> DrawFontApply(d, g)
      [] d.k = "TextLayoutApply" -> DrawTextLayoutApply(d, g)
      [] d.k = "TextWith" -> DrawTextWith(d, g)
      [] d.k = "TextSpanWith" -> DrawTextSpanWith(d, g)

\* ------------------------------------------------ measures of a description

RECURSIVE Nodes(_)
RECURSIVE SumNodes(_, _)

SumNodes(items, i) ==
    IF i > Len(items) THEN 0 ELSE Nodes(items[i]) + SumNodes(items, i + 1)

Nodes(d) ==
    CASE d.k \in {"str", "String", "animated", "fn"} -> 1
      [] d.k = "tuple" -> 1 + SumNodes(d.items, 1)
      [] OTHER -> 1 + Nodes(d.graphic)

RECURSIVE AttrCount(_)
RECURSIVE SumAttrs(_, _)

SumAttrs(items, i) ==
    IF i > Len(items) THEN 0 ELSE AttrCount(items[i]) + SumAttrs(items, i + 1)

\* Number of scope values an attribute argument holds.
AttrCount(a) == IF a.k = "tuple" THEN SumAttrs(a.items, 1) ELSE 1

\* ------------------------------------------------------------------- Device

\* Animation registers the backend can resolve.
KnownRegisters == {"r1"}

None == [some |-> FALSE, v |-> << >>]
Some(v) == [some |-> TRUE, v |-> v]

\* The state one compile call carries through its forward pass: the stack of
\* open scopes, the structural form built so far, and the first error.
NewCompile == [stack |-> << >>, out |-> << >>, err |-> ""]

Node(kind, s, depth) == [node |-> kind, s |-> s, depth |-> depth]

\* The close nodes of the n innermost open scopes, innermost first.
RECURSIVE CloseNodes(_, _)
CloseNodes(stack, n) ==
    IF n = 0 THEN << >>
    ELSE <<Node("close", stack[Len(stack)], Len(stack) - 1)>>
         \o CloseNodes(SubSeq(stack, 1, Len(stack) - 1), n - 1)

\* One instruction of the forward pass.
CompileInstr(cs, ir) ==
    CASE ir.op = "String" ->
           [cs EXCEPT !.out = Append(@, Node("text", ir.s, Len(cs.stack)))]
      [] ir.op = "Animated" ->
           [cs EXCEPT !.out = Append(@, Node("ref", ir.s, Len(cs.stack)))]
      [] ir.op = "Open" ->
           [cs EXCEPT !.stack = Append(@, ir.s),
                      !.out = Append(@, Node("open", ir.s, Len(cs.stack)))]
      [] ir.op = "Pop" ->
           IF ir.n > Len(cs.stack)
           THEN [cs EXCEPT !.err = "StructuralError"]
           ELSE [cs EXCEPT !.stack = SubSeq(@, 1, Len(@) - ir.n),
                           !.out = @ \o CloseNodes(cs.stack, ir.n)]

\* Mutant: scopes left open at the end of the log are closed silently.
CompileVerdict_IgnoreOpen(cs) ==
    IF cs.err # "" THEN cs.err
    ELSE IF \E i \in 1..Len(cs.out) :
              cs.out[i].node = "ref" /\ cs.out[i].s \notin KnownRegisters
         THEN "UnresolvedReference"
    ELSE ""

\* What the end of the pass makes of the call's state: an error, or "" when
\* the structural form is a Program.
CompileVerdict(cs) ==
    IF cs.err # "" THEN cs.err
    ELSE IF cs.stack # << >> THEN "StructuralError"
    ELSE IF \E i \in 1..Len(cs.out) :
              cs.out[i].node = "ref" /\ cs.out[i].s \notin KnownRegisters
         THEN "UnresolvedReference"
    ELSE ""

\* One node of the Program serialised by execute.
SerializeNode(nd) ==
    CASE nd.node = "text" -> [tok |-> "chars", s |-> nd.s]
      [] nd.node = "ref" -> [tok |-> "placeholder", s |-> nd.s]
      [] nd.node = "open" -> [tok |-> "start", s |-> nd.s]
      [] nd.node = "close" -> [tok |-> "end", s |-> nd.s]

\* ------------------------------------------------------------------- state

Docs == {1, 2}

VARIABLES
    pool,       \* the descriptions authored so far (document 1)
    generator,  \* per document: the Generator's instruction log
    phase,      \* per document: where its pipeline stands
    cursor,     \* per document: instructions / nodes consumed by the call in flight
    scope,      \* per compile slot: the in-flight call's state (see NewCompile)
    partial,    \* per document: output built so far by the execute in flight
    program,    \* per document: the Program the caller holds, if any
    output,     \* per document: the Output the caller holds, if any
    error,      \* per document: the error the caller was handed, "" if none
    frames,     \* the call stack of the draw in progress (step-by-step drawing)
    field,      \* the DeriveFiled being derived, with the setters emitted for it
    layer,      \* a Layer value built and changed through its derived setters
    lastSet,    \* per Layer field: the last setter call made for it
    call        \* a conversion call: its function, argument and result

vars == <<pool, generator, phase, cursor, scope, partial, program, output, error,
          frames, field, layer, lastSet, call>>

auxVars == <<frames, field, layer, lastSet, call>>

\* The value of a variable the specification at hand does not use.
Unused == [unused |-> TRUE]

AuxIdle ==
    /\ frames = << >>
    /\ field = Unused
    /\ layer = Unused
    /\ lastSet = Unused
    /\ call = Unused

devVars == <<phase, cursor, scope, partial, program, output, error>>

\* Mutant: the device keeps one scope state for all calls.
ScopeSlot_Shared(d) == 1

\* The slot of the device a compile call keeps its scope state in: one per
\* call (compile is reentrant).
ScopeSlot(d) == d

RECURSIVE PoolNodesFrom(_, _)
PoolNodesFrom(p, i) ==
    IF i > Len(p) THEN 0 ELSE Nodes(p[i]) + PoolNodesFrom(p, i + 1)
PoolNodes == PoolNodesFrom(pool, 1)

Min(a, b) == IF a < b THEN a ELSE b

Init ==
    /\ pool = << >>
    /\ generator = [d \in Docs |-> EmptyGenerator]
    /\ phase = [d \in Docs |-> IF d = 1 THEN "Authoring" ELSE "Absent"]
    /\ cursor = [d \in Docs |-> 0]
    /\ scope = [d \in Docs |-> NewCompile]
    /\ partial = [d \in Docs |-> << >>]
    /\ program = [d \in Docs |-> None]
    /\ output = [d \in Docs |-> None]
    /\ error = [d \in Docs |-> ""]
    /\ AuxIdle

\* ---------------------------------------------------------------- authoring

CanAdd(n) ==
    /\ phase[1] = "Authoring"
    /\ PoolNodes + n <= MaxNodes

NewLeaf(g) ==
    /\ CanAdd(1)
    /\ Len(pool) < MaxPool
    /\ pool' = Append(pool, g)
    /\ UNCHANGED <<generator, devVars, auxVars>>

NewStr == \E s \in StrLeaves : NewLeaf(StrGraphic(s))

NewString == \E s \in StringLeaves : NewLeaf(StringGraphic(s))

NewAnimated == \E name \in RegisterNames : NewLeaf(animated(name))

NewFn == \E body \in FnBodies : NewLeaf(FnGraphic(body))

\* The last n descriptions become one tuple.
MakeTuple ==
    \E n \in 2..Min(MaxPool, MaxTupleArity) :
        /\ CanAdd(1)
        /\ n <= Len(pool)
        /\ pool' = Append(SubSeq(pool, 1, Len(pool) - n),
                          TupleGraphic(SubSeq(pool, Len(pool) - n + 1, Len(pool))))
        /\ UNCHANGED <<generator, devVars, auxVars>>

\* apply(attrs, target) on the last description.
Apply ==
    \E a \in Attrs :
        /\ CanAdd(AttrCount(a))
        /\ Len(pool) >= 1
        /\ pool' = [pool EXCEPT ![Len(pool)] = apply(a, @)]
        /\ UNCHANGED <<generator, devVars, auxVars>>

\* with(parent, content) on the last description.
With ==
    \E p \in Parents :
        /\ CanAdd(1)
        /\ Len(pool) >= 1
        /\ pool' = [pool EXCEPT ![Len(pool)] = with(p, @)]
        /\ UNCHANGED <<generator, devVars, auxVars>>

\* ----------------------------------------------------------------- pipeline

\* Mutant: the description is drawn into the generator again while compile
\* is in flight.
SvgDraw_AfterCompile ==
    /\ phase[1] \in {"Authoring", "Compiling"}
    /\ Len(pool) = 1
    /\ generator' = [generator EXCEPT ![1] =
                         draw(pool[1], IF phase[1] = "Authoring"
                                       THEN EmptyGenerator ELSE @)]
    /\ phase' = [phase EXCEPT ![1] = IF @ = "Authoring" THEN "Idle" ELSE @]
    /\ UNCHANGED <<auxVars, pool, cursor, scope, partial, program, output, error>>

\* svg(name, test): a fresh generator, then test.draw(&mut generator).
SvgDraw ==
    /\ phase[1] = "Authoring"
    /\ Len(pool) = 1
    /\ generator' = [generator EXCEPT ![1] = draw(pool[1], EmptyGenerator)]
    /\ phase' = [phase EXCEPT ![1] = "Idle"]
    /\ UNCHANGED <<auxVars, pool, cursor, scope, partial, program, output, error>>

\* generator.compile(&mut svg_device): the call starts.
CompileBegin(d) ==
    /\ phase[d] = "Idle"
    /\ phase' = [phase EXCEPT ![d] = "Compiling"]
    /\ cursor' = [cursor EXCEPT ![d] = 0]
    /\ scope' = [scope EXCEPT ![ScopeSlot(d)] = NewCompile]
    /\ UNCHANGED <<auxVars, pool, generator, partial, program, output, error>>

\* The forward pass consumes one instruction.
CompileStep(d) ==
    /\ phase[d] = "Compiling"
    /\ cursor[d] < Len(generator[d])
    /\ scope[ScopeSlot(d)].err = ""
    /\ scope' = [scope EXCEPT ![ScopeSlot(d)] =
                     CompileInstr(@, generator[d][cursor[d] + 1])]
    /\ cursor' = [cursor EXCEPT ![d] = @ + 1]
    /\ UNCHANGED <<auxVars, pool, generator, phase, partial, program, output, error>>

\* The call returns: an error, or the Program.
CompileEnd(d) ==
    /\ phase[d] = "Compiling"
    /\ cursor[d] = Len(generator[d]) \/ scope[ScopeSlot(d)].err # ""
    /\ LET cs == scope[ScopeSlot(d)]
           verdict == CompileVerdict(cs)
       IN  \/ /\ verdict # ""
              /\ phase' = [phase EXCEPT ![d] = "Failed"]
              /\ error' = [error EXCEPT ![d] = verdict]
              /\ UNCHANGED program
           \/ /\ verdict = ""
              /\ phase' = [phase EXCEPT ![d] = "Failed"]
              /\ error' = [error EXCEPT ![d] = "BackendError"]
              /\ UNCHANGED program
           \/ /\ verdict = ""
              /\ phase' = [phase EXCEPT ![d] = "Compiled"]
              /\ program' = [program EXCEPT ![d] = Some(cs.out)]
              /\ UNCHANGED error
    /\ cursor' = [cursor EXCEPT ![d] = 0]
    /\ scope' = [scope EXCEPT ![ScopeSlot(d)] = NewCompile]
    /\ UNCHANGED <<auxVars, pool, generator, partial, output>>

\* Mutant: compile's result is not unwrapped; execute runs after a failure.
ExecuteBegin_NoUnwrap(d) ==
    /\ phase[d] \in {"Compiled", "Failed"}
    /\ phase' = [phase EXCEPT ![d] = "Executing"]
    /\ cursor' = [cursor EXCEPT ![d] = 0]
    /\ partial' = [partial EXCEPT ![d] = << >>]
    /\ UNCHANGED <<auxVars, pool, generator, scope, program, output, error>>

\* program.execute(..): the call starts. The caller unwraps compile's
\* result first, so it holds a Program only after a successful compile.
ExecuteBegin(d) ==
    /\ phase[d] = "Compiled"
    /\ program[d].some
    /\ phase' = [phase EXCEPT ![d] = "Executing"]
    /\ cursor' = [cursor EXCEPT ![d] = 0]
    /\ partial' = [partial EXCEPT ![d] = << >>]
    /\ UNCHANGED <<auxVars, pool, generator, scope, program, output, error>>

\* execute serialises one node of the Program.
ExecuteStep(d) ==
    /\ phase[d] = "Executing"
    /\ cursor[d] < Len(program[d].v)
    /\ partial' = [partial EXCEPT ![d] =
                       Append(@, SerializeNode(program[d].v[cursor[d] + 1]))]
    /\ cursor' = [cursor EXCEPT ![d] = @ + 1]
    /\ UNCHANGED <<auxVars, pool, generator, phase, scope, program, output, error>>

\* The call returns: the Output, or a backend error.
ExecuteEnd(d) ==
    /\ phase[d] = "Executing"
    /\ cursor[d] = Len(program[d].v)
    /\ \/ /\ phase' = [phase EXCEPT ![d] = "Done"]
          /\ output' = [output EXCEPT ![d] = Some(partial[d])]
          /\ UNCHANGED error
       \/ /\ phase' = [phase EXCEPT ![d] = "Failed"]
          /\ error' = [error EXCEPT ![d] = "BackendError"]
          /\ UNCHANGED output
    /\ partial' = [partial EXCEPT ![d] = << >>]
    /\ cursor' = [cursor EXCEPT ![d] = 0]
    /\ UNCHANGED <<auxVars, pool, generator, scope, program>>

\* Mutant: an abandoned execute hands over what it had serialised so far.
Cancel_KeepPartial(d) ==
    /\ phase[d] \in {"Compiling", "Executing"}
    /\ phase' = [phase EXCEPT ![d] = "Cancelled"]
    /\ output' = [output EXCEPT ![d] =
                      IF phase[d] = "Executing" THEN Some(partial[d]) ELSE @]
    /\ partial' = [partial EXCEPT ![d] = << >>]
    /\ cursor' = [cursor EXCEPT ![d] = 0]
    /\ scope' = [scope EXCEPT ![ScopeSlot(d)] =
                     IF phase[d] = "Compiling" THEN NewCompile ELSE @]
    /\ UNCHANGED <<auxVars, pool, generator, program, error>>

\* The caller abandons the call in flight: its future is dropped with all it
\* had built (the call's cursor, scope state and partial output).
Cancel(d) ==
    /\ phase[d] \in {"Compiling", "Executing"}
    /\ phase' = [phase EXCEPT ![d] = "Cancelled"]
    /\ partial' = [partial EXCEPT ![d] = << >>]
    /\ cursor' = [cursor EXCEPT ![d] = 0]
    /\ scope' = [scope EXCEPT ![ScopeSlot(d)] =
                     IF phase[d] = "Compiling" THEN NewCompile ELSE @]
    /\ UNCHANGED <<auxVars, pool, generator, program, output, error>>

Authoring ==
    \/ NewStr
    \/ NewString
    \/ NewAnimated
    \/ NewFn
    \/ MakeTuple
    \/ Apply
    \/ With

Device(d) ==
    \/ CompileBegin(d)
    \/ CompileStep(d)
    \/ CompileEnd(d)
    \/ ExecuteBegin(d)
    \/ ExecuteStep(d)
    \/ ExecuteEnd(d)
    \/ Cancel(d)

Next ==
    \/ Authoring
    \/ SvgDraw
    \/ \E d \in Docs : Device(d)

Spec == Init /\ [][Next]_vars

\* ------------------------------------------- two compile calls, one Device

\* Descriptions whose logs the two concurrent calls compile: balanced ones,
\* one with an unmatched open, one closing below zero, one naming a register
\* the backend does not know.
SampleGraphics ==
    { apply(Font1, StringGraphic("hello")),
      with(Text1, TupleGraphic(<<StrGraphic("a"), animated("r1")>>)),
      apply(AttrTuple(<<Font1, Layout1>>), with(Span1, StrGraphic("b"))),
      TupleGraphic(<<FnGraphic(<<CallPushFrom(Font1)>>), StrGraphic("a")>>),
      with(Text1, FnGraphic(<<CallPop(2)>>)),
      apply(Layout1, animated("r2")) }

SampleLogs == { draw(x, EmptyGenerator) : x \in SampleGraphics }

ConcInit ==
    /\ pool = << >>
    /\ generator \in [Docs -> SampleLogs]
    /\ phase = [d \in Docs |-> "Idle"]
    /\ cursor = [d \in Docs |-> 0]
    /\ scope = [d \in Docs |-> NewCompile]
    /\ partial = [d \in Docs |-> << >>]
    /\ program = [d \in Docs |-> None]
    /\ output = [d \in Docs |-> None]
    /\ error = [d \in Docs |-> ""]
    /\ AuxIdle

ConcNext == \E d \in Docs : Device(d)

SpecConc == ConcInit /\ [][ConcNext]_vars

\* ------------------------------------------------------ auxiliary operators

\* test.draw(&mut generator) has just returned: the description handed to
\* svg(..) is drawn and the log not yet handed to compile.
Drawn == Len(pool) = 1 /\ phase[1] = "Idle"

Delta(ir) ==
    CASE ir.op = "Open" -> 1
      [] ir.op = "Pop" -> 0 - ir.n
      [] OTHER -> 0

\* The open/close counter after the first i instructions of a log.
RECURSIVE RunningSum(_, _)
RunningSum(log, i) ==
    IF i = 0 THEN 0 ELSE RunningSum(log, i - 1) + Delta(log[i])

NeverNegative(log) == \A i \in 0..Len(log) : RunningSum(log, i) >= 0

Balanced(log) == NeverNegative(log) /\ RunningSum(log, Len(log)) = 0

WrapperKinds == {"FontApply", "TextLayoutApply", "TextWith", "TextSpanWith"}

\* Built from leaves, tuples and the apply / with wrappers only.
RECURSIVE ClosureFree(_)
ClosureFree(d) ==
    CASE d.k \in {"str", "String", "animated"} -> TRUE
      [] d.k = "fn" -> FALSE
      [] d.k = "tuple" -> \A i \in 1..Len(d.items) : ClosureFree(d.items[i])
      [] OTHER -> ClosureFree(d.graphic)

RECURSIVE Concat(_, _)
\* The logs of items[i..] drawn one by one, each into an empty Generator.
Concat(items, i) ==
    IF i > Len(items) THEN << >>
    ELSE draw(items[i], EmptyGenerator) \o Concat(items, i + 1)

Repeat(x, n) == [i \in 1..n |-> x]

\* -------------------------------------------------------------------- C1

\* C1: a description built from leaves, tuples and apply / with wrappers,
\* drawn into an empty Generator, leaves a log whose open/close counter
\* (+1 per ScopeOpen, -n per ScopeClose(n)) is never negative over any
\* prefix and is zero over the whole log.
C1_ScopeBalance ==
    (Drawn /\ ClosureFree(pool[1])) => Balanced(generator[1])

C1_Witness ==
    /\ Drawn
    /\ ClosureFree(pool[1])
    /\ pool[1].k = "TextWith"
    /\ pool[1].graphic.k = "FontApply"
    /\ pool[1].graphic.graphic.k = "TextLayoutApply"
    /\ RunningSum(generator[1], 3) = 3
    /\ Len(generator[1]) = 7

\* -------------------------------------------------------------------- C2

FlatAttrTuples ==
    { a \in Attrs : a.k = "tuple" /\ \A i \in 1..Len(a.items) : a.items[i].k # "tuple" }

LeafGraphics ==
    { StrGraphic(s) : s \in StrLeaves } \cup { StringGraphic(s) : s \in StringLeaves }

\* C2: apply((A, B, C), T), drawn, appends open(A), open(B), open(C), T's
\* instructions, then one close(1) per scope: the first-listed scope is the
\* outermost.
C2_ListedOrderNesting ==
    \A a \in FlatAttrTuples : \A t \in LeafGraphics :
        (Drawn /\ pool[1] = apply(a, t)) =>
            generator[1] = [i \in 1..Len(a.items) |-> ScopeOpen(a.items[i])]
                           \o draw(t, EmptyGenerator)
                           \o Repeat(ScopeClose(1), Len(a.items))

\* What the code does instead: the last-listed scope is the outermost.
C2_ReverseOrderNesting ==
    \A a \in FlatAttrTuples : \A t \in LeafGraphics :
        (Drawn /\ pool[1] = apply(a, t)) =>
            generator[1] = [i \in 1..Len(a.items) |->
                               ScopeOpen(a.items[Len(a.items) + 1 - i])]
                           \o draw(t, EmptyGenerator)
                           \o Repeat(ScopeClose(1), Len(a.items))

\* -------------------------------------------------------------------- C3

\* C3: drawing a tuple appends exactly the logs of its members drawn alone,
\* concatenated left to right; ("a", "b") yields [Leaf("a"), Leaf("b")].
C3_DrawOrder ==
    /\ (Drawn /\ pool[1].k = "tuple") =>
           generator[1] = Concat(pool[1].items, 1)
    /\ (Drawn /\ pool[1] = TupleGraphic(<<StrGraphic("a"), StrGraphic("b")>>)) =>
           generator[1] = <<IRString("a"), IRString("b")>>

C3_Witness ==
    /\ Drawn
    /\ pool[1].k = "tuple"
    /\ Len(pool[1].items) = 3
    /\ pool[1].items[1] # pool[1].items[2]
    /\ pool[1].items[2] # pool[1].items[3]

\* -------------------------------------------------------------------- C4

\* C4: drawing apply(W, T) or with(W, T) for one wrapper value W appends the
\* open for W, then exactly T's instructions, then exactly one ScopeClose(1);
\* "hello" under one attribute scope S gives [Open(S), Leaf("hello"), Close(1)].
C4_SingleWrapperPair ==
    /\ (Drawn /\ pool[1].k \in WrapperKinds) =>
           generator[1] = <<ScopeOpen(pool[1].self)>>
                          \o draw(pool[1].graphic, EmptyGenerator)
                          \o <<ScopeClose(1)>>
    /\ \A S \in Fonts \cup TextLayouts :
           (Drawn /\ pool[1] = apply(S, StringGraphic("hello"))) =>
               generator[1] = <<ScopeOpen(S), IRString("hello"), ScopeClose(1)>>

C4_Witness ==
    /\ Drawn
    /\ pool[1] = apply(Layout1, StringGraphic("hello"))
    /\ Len(generator[1]) = 3

\* -------------------------------------------------------------------- C5

\* The state of a compile call run alone over the first i instructions of a
\* log (the pass stops at its first error).
RECURSIVE CompilePrefix(_, _)
CompilePrefix(log, i) ==
    IF i = 0 THEN NewCompile
    ELSE LET cs == CompilePrefix(log, i - 1)
         IN  IF cs.err # "" THEN cs ELSE CompileInstr(cs, log[i])

CompileAlone(log) == CompilePrefix(log, Len(log))

\* The wrapper values of a chain of nested wrappers, outermost first.
RECURSIVE ChainOf(_)
ChainOf(d) ==
    IF d.k \in WrapperKinds THEN <<d.self>> \o ChainOf(d.graphic) ELSE << >>

\* What the innermost wrapper of a chain wraps.
RECURSIVE ChainCore(_)
ChainCore(d) == IF d.k \in WrapperKinds THEN ChainCore(d.graphic) ELSE d

IsLeaf(d) == d.k \in {"str", "String", "animated"}

\* The scopes a log closes, in the order it closes them, each close matched
\* to the innermost scope still open.
ClosedOrder(log) ==
    LET out == CompileAlone(log).out
        idx == { i \in 1..Len(out) : out[i].node = "close" }
        \* the position in out of the j-th close node
        at(j) == CHOOSE i \in idx : Cardinality({ h \in idx : h <= i }) = j
    IN  [j \in 1..Cardinality(idx) |-> out[at(j)].s]

\* C5: nested wrappers around a leaf open outermost first and close innermost
\* first, at any depth: the log is the opens in nesting order, the leaf, then
\* one Close(1) per wrapper, the j-th close matching the j-th innermost
\* wrapper; apply(S, with(C, leaf)) gives
\* [Open(S), Open(C), Leaf, Close(1), Close(1)].
C5_InnermostClosesFirst ==
    /\ (Drawn /\ Len(ChainOf(pool[1])) >= 2 /\ IsLeaf(ChainCore(pool[1]))) =>
           LET chain == ChainOf(pool[1])
               n == Len(chain)
           IN  /\ generator[1] = [i \in 1..n |-> ScopeOpen(chain[i])]
                                 \o draw(ChainCore(pool[1]), EmptyGenerator)
                                 \o Repeat(ScopeClose(1), n)
               /\ ClosedOrder(generator[1]) = [j \in 1..n |-> chain[n + 1 - j].id]
    /\ \A S \in Fonts \cup TextLayouts : \A C \in Parents : \A t \in LeafGraphics :
           (Drawn /\ pool[1] = apply(S, with(C, t))) =>
               generator[1] = <<ScopeOpen(S), ScopeOpen(C), IRString(t.s),
                                ScopeClose(1), ScopeClose(1)>>

C5_Witness ==
    /\ Drawn
    /\ pool[1] = apply(Font1, with(Text1, StrGraphic("a")))
    /\ Len(generator[1]) = 5

\* -------------------------------------------------------------------- C6

\* C6: compile on a log whose open/close counter goes negative or does not
\* end at zero never yields a Program (so nothing is executed), and the error
\* it returns is StructuralError.
C6_UnbalancedIsStructuralError ==
    \A d \in Docs :
        ~Balanced(generator[d]) =>
            /\ ~program[d].some
            /\ phase[d] \notin {"Compiled", "Executing", "Done"}
            /\ phase[d] = "Failed" => error[d] = "StructuralError"

C6_Witness ==
    /\ phase[1] = "Failed"
    /\ error[1] = "StructuralError"
    /\ NeverNegative(generator[1])
    /\ RunningSum(generator[1], Len(generator[1])) > 0
    /\ ~program[1].some

\* -------------------------------------------------------------------- C7

\* The arrows of the Device's state machine.
DeviceArrows ==
    { <<"Idle", "Compiling">>, <<"Compiling", "Compiled">>, <<"Compiling", "Failed">>,
      <<"Compiled", "Executing">>, <<"Executing", "Done">>, <<"Executing", "Failed">> }

DeviceStates == {"Idle", "Compiling", "Compiled", "Failed", "Executing", "Done"}

\* C7: a document's pipeline starts at Idle once drawn and enters the Device's
\* states only along Idle -> Compiling -> {Compiled | Failed} and Compiled ->
\* Executing -> {Done | Failed}; Executing is entered only from Compiled; an Output exists
\* only at Done; from Failed nothing moves and no Program or Output appears.
C7_DeviceStateMachine ==
    [][\A d \in Docs :
          /\ (phase'[d] # phase[d] /\ phase'[d] \in DeviceStates \ {"Idle"}) =>
                 <<phase[d], phase'[d]>> \in DeviceArrows
          /\ (phase'[d] # phase[d] /\ phase'[d] = "Idle") => phase[d] = "Authoring"
          /\ (phase'[d] = "Executing" /\ phase[d] # "Executing") =>
                 (phase[d] = "Compiled" /\ program[d].some /\ error[d] = "")
          /\ output'[d].some => phase'[d] = "Done"
          /\ phase[d] = "Failed" =>
                 /\ phase'[d] = "Failed"
                 /\ program'[d] = program[d]
                 /\ output'[d] = output[d]
                 /\ ~output[d].some]_vars

C7_Witness ==
    /\ phase[1] = "Done"
    /\ output[1].some
    /\ Len(output[1].v) >= 3

\* -------------------------------------------------------------------- C8

\* C8: from the step that starts compile on, the document's log is never
\* changed: it is the same sequence when compile returns (Program or error)
\* as when it was called, and nothing is appended to it afterwards.
C8_CompileKeepsLog ==
    [][\A d \in Docs :
          (phase[d] \notin {"Absent", "Authoring", "Idle"} \/ phase'[d] = "Compiling") =>
              generator'[d] = generator[d]]_vars

C8_Witness ==
    /\ phase[1] = "Compiled"
    /\ program[1].some
    /\ Len(generator[1]) >= 4
    /\ Len(program[1].v) = Len(generator[1])

\* -------------------------------------------------------------------- C9

\* C9: with two compile calls in flight on one Device, under any interleaving
\* of their steps, each call's scope state is the one it would have alone
\* after the instructions it has consumed, and each call's result (Program or
\* error) is the result of compiling its log alone.
C9_CompileIsolation ==
    \A d \in Docs :
        LET alone == CompileAlone(generator[d])
            verdict == CompileVerdict(alone)
        IN  /\ phase[d] = "Compiling" =>
                   scope[d] = CompilePrefix(generator[d], cursor[d])
            /\ program[d].some => (verdict = "" /\ program[d].v = alone.out)
            /\ phase[d] \in {"Compiled", "Executing", "Done"} => program[d].some
            /\ phase[d] = "Failed" =>
                   error[d] = (IF verdict # "" THEN verdict ELSE "BackendError")

C9_Witness ==
    /\ phase[1] = "Compiling"
    /\ phase[2] = "Compiling"
    /\ generator[1] # generator[2]
    /\ cursor[1] >= 2
    /\ cursor[2] >= 2
    /\ scope[1].stack # << >>
    /\ scope[2].stack # << >>
    /\ scope[1].stack # scope[2].stack

\* ------------------------------------------------------------------- C10

\* C10: abandoning a compile or execute in flight hands the caller nothing:
\* the step leaves Program and Output as they were, a cancelled compile
\* leaves no Program, a cancelled document has no Output and no partial
\* output, and nothing appears later.
C10_CancelProducesNothing ==
    [][\A d \in Docs :
          /\ (phase'[d] = "Cancelled") =>
                 /\ program'[d] = program[d]
                 /\ output'[d] = output[d]
                 /\ ~output'[d].some
                 /\ partial'[d] = << >>
          /\ (phase[d] = "Compiling" /\ phase'[d] = "Cancelled") => ~program'[d].some
          /\ phase[d] = "Cancelled" => phase'[d] = "Cancelled"]_vars

C10_Witness ==
    /\ phase[1] = "Cancelled"
    /\ program[1].some
    /\ Len(program[1].v) >= 3
    /\ ~output[1].some

\* --------------------------------------------------- drawing, step by step

\* draw as the call tree it is: `frames` holds, innermost first, what the
\* draw in progress has still to do: descriptions to draw and the Generator
\* calls of the closure bodies being run. Each Generator call is one step.
DrawFrame(d) == [f |-> "draw", d |-> d]
CallFrame(c) == [f |-> c.call, w |-> c.w, n |-> c.n]

\* svg(name, test): a fresh generator; test.draw(&mut generator) is entered.
DrawBegin ==
    /\ phase[1] = "Authoring"
    /\ Len(pool) = 1
    /\ phase' = [phase EXCEPT ![1] = "Drawing"]
    /\ generator' = [generator EXCEPT ![1] = EmptyGenerator]
    /\ frames' = <<DrawFrame(pool[1])>>
    /\ UNCHANGED <<pool, cursor, scope, partial, program, output, error,
                   field, layer, lastSet, call>>

Drawing(kinds) ==
    /\ phase[1] = "Drawing"
    /\ frames # << >>
    /\ frames[1].f = "draw"
    /\ frames[1].d.k \in kinds

\* A leaf's draw: one g.push(..).
StepLeaf ==
    /\ Drawing({"str", "String", "animated"})
    /\ generator' = [generator EXCEPT ![1] = draw(frames[1].d, @)]
    /\ frames' = Tail(frames)
    /\ UNCHANGED <<pool, devVars, field, layer, lastSet, call>>

\* A tuple's draw: its members' draws, left to right.
StepTuple ==
    /\ Drawing({"tuple"})
    /\ frames' = [i \in 1..Len(frames[1].d.items) |-> DrawFrame(frames[1].d.items[i])]
                 \o Tail(frames)
    /\ UNCHANGED <<pool, generator, devVars, field, layer, lastSet, call>>

\* A hand-written closure's draw: the calls of its body.
StepFn ==
    /\ Drawing({"fn"})
    /\ frames' = [i \in 1..Len(frames[1].d.body) |-> CallFrame(frames[1].d.body[i])]
                 \o Tail(frames)
    /\ UNCHANGED <<pool, generator, devVars, field, layer, lastSet, call>>

\* A wrapper closure's draw: g.push_from(self); graphic.draw(g); g.pop(1).
StepClosure ==
    /\ Drawing(WrapperKinds)
    /\ frames' = << CallFrame(CallPushFrom(frames[1].d.self)),
                    DrawFrame(frames[1].d.graphic),
                    CallFrame(CallPop(1)) >> \o Tail(frames)
    /\ UNCHANGED <<pool, generator, devVars, field, layer, lastSet, call>>

\* g.push_from(w) or g.pop(n).
StepCall ==
    /\ phase[1] = "Drawing"
    /\ frames # << >>
    /\ frames[1].f \in {"push_from", "pop"}
    /\ generator' = [generator EXCEPT ![1] =
                         IF frames[1].f = "push_from" THEN push_from(@, frames[1].w)
                         ELSE pop(@, frames[1].n)]
    /\ frames' = Tail(frames)
    /\ UNCHANGED <<pool, devVars, field, layer, lastSet, call>>

\* test.draw(&mut generator) returns.
DrawEnd ==
    /\ phase[1] = "Drawing"
    /\ frames = << >>
    /\ phase' = [phase EXCEPT ![1] = "Idle"]
    /\ UNCHANGED <<pool, generator, cursor, scope, partial, program, output, error,
                   auxVars>>

DrawNext ==
    \/ Authoring
    \/ DrawBegin
    \/ StepLeaf
    \/ StepTuple
    \/ StepFn
    \/ StepClosure
    \/ StepCall
    \/ DrawEnd

SpecDraw == Init /\ [][DrawNext]_vars

\* ------------------------------------------------------------------- C11

IsPrefix(s, u) == Len(s) <= Len(u) /\ SubSeq(u, 1, Len(s)) = s

\* C11: every step of drawing any description (each push, push_from and pop
\* it issues) leaves the log it found as a prefix of the log it leaves, so
\* nothing is removed, reordered or changed and the length never decreases;
\* the log the steps leave is the log draw returns.
C11_AppendOnly ==
    /\ [][\A d \in Docs :
             /\ IsPrefix(generator[d], generator'[d])
             /\ Len(generator'[d]) >= Len(generator[d])]_vars
    /\ []((Drawn /\ frames = << >>) => generator[1] = draw(pool[1], EmptyGenerator))

C11_Witness ==
    /\ phase[1] = "Drawing"
    /\ Len(generator[1]) >= 3
    /\ frames # << >>
    /\ frames[1].f = "pop"
    /\ generator[1][1].op = "Open"
    /\ generator[1][3].op = "Pop"

\* --------------------------------------------------------- derive (Dsl)

\* A field type is the chain of its path heads, outermost first: Option<Vec<f32>>
\* is <<"Option", "Vec", "f32">>. Option, Vec and Animatable take one type
\* argument, so they are never last; the other heads may be generic or not.
MaxTypeDepth == 4

OtherIdents == {"Measurement", "ViewBox"}       \* single-segment paths
QualifiedPaths == {"std::vec::Vec"}             \* path.segments.len() != 1
NonPaths == {"&str"}                            \* not a Type::Path
Generics == {"Option", "Vec", "Animatable"}
Heads == Generics \cup OtherIdents \cup QualifiedPaths \cup NonPaths

FieldTypes ==
    UNION { { ty \in [1..n -> Heads] : ty[n] \notin Generics } : n \in 1..MaxTypeDepth }

\* enum DeriveType
DeriveVec == [k |-> "Vec", t |-> << >>]
DeriveAnimatable == [k |-> "Animatable", t |-> << >>]
DeriveOption == [k |-> "Option", t |-> << >>]
Unknown(tokens) == [k |-> "Unknown", t |-> tokens]

\* Mutant: a Vec is descended into wherever it is met.
ParseIter_VecAnywhere(ty, i, type_stack) ==
    LET unknown == [type_stack |-> Append(type_stack, Unknown(SubSeq(ty, i, Len(ty)))),
                    current |-> 0]
        descend(k) == [type_stack |-> Append(type_stack, k), current |-> i + 1]
    IN  CASE ty[i] = "Option" /\ type_stack = << >> -> descend(DeriveOption)
          [] ty[i] = "Vec" -> descend(DeriveVec)
          [] /\ ty[i] = "Animatable"
             /\ \/ type_stack = << >>
                \/ (Len(type_stack) = 1 /\ type_stack[1] = DeriveOption) ->
                descend(DeriveAnimatable)
          [] OTHER -> unknown

\* One turn of parse_field_type's loop on current_type = the type from head i
\* on: the stack it leaves and the head it continues at (0 after a break).
\* current_type.to_token_stream() is the chain from i on.
ParseIter(ty, i, type_stack) ==
    LET unknown == [type_stack |-> Append(type_stack, Unknown(SubSeq(ty, i, Len(ty)))),
                    current |-> 0]
        descend(k) == [type_stack |-> Append(type_stack, k), current |-> i + 1]
    IN  CASE ty[i] \in NonPaths -> unknown
          [] ty[i] \in QualifiedPaths -> unknown
          [] ty[i] = "Option" ->
                IF type_stack = << >> THEN descend(DeriveOption) ELSE unknown
          [] ty[i] = "Vec" ->
                IF \/ type_stack = << >>
                   \/ (Len(type_stack) = 1 /\ type_stack[1] = DeriveOption)
                   \/ (Len(type_stack) = 1 /\ type_stack[1] = DeriveAnimatable)
                THEN descend(DeriveVec) ELSE unknown
          [] ty[i] = "Animatable" ->
                IF \/ type_stack = << >>
                   \/ (Len(type_stack) = 1 /\ type_stack[1] = DeriveOption)
                THEN descend(DeriveAnimatable) ELSE unknown
          [] OTHER -> unknown

RECURSIVE ParseFrom(_, _, _)
ParseFrom(ty, i, type_stack) ==
    IF i = 0 THEN type_stack
    ELSE LET r == ParseIter(ty, i, type_stack)
         IN  ParseFrom(ty, r.current, r.type_stack)

parse_field_type(root_type) == ParseFrom(root_type, 1, << >>)

\* content_type: the token stream of the last element of the stack, or a panic.
content_type(type_stack) ==
    IF ~(Len(type_stack) > 0 /\ Len(type_stack) < 4)
    THEN [panic |-> TRUE, tokens |-> << >>]
    ELSE IF type_stack[Len(type_stack)].k # "Unknown"
    THEN [panic |-> TRUE, tokens |-> << >>]
    ELSE [panic |-> FALSE, tokens |-> type_stack[Len(type_stack)].t]

\* A generated setter: its name (the field, with or without _animated), the
\* expression it assigns to the field and the type it converts to.
Api(ident, suffix, body, content) ==
    [ident |-> ident, animated |-> suffix, body |-> body, content |-> content]

\* What derive pushes to apis, whether an assertion fired, and whether the
\* empty `_ => {}` arm was taken.
Emitted(apis) == [apis |-> apis, panic |-> FALSE, empty_arm |-> FALSE]
Panicked == [apis |-> << >>, panic |-> TRUE, empty_arm |-> FALSE]
EmptyArm == [apis |-> << >>, panic |-> FALSE, empty_arm |-> TRUE]

\* Mutant: the Option<Animatable<T>> arm forgets the _animated setter.
OptionArm_NoAnimated(ident, type_stack, tokens) ==
    IF Len(type_stack) = 3
    THEN CASE type_stack[2] = DeriveVec ->
                Emitted(<<Api(ident, FALSE, "Some(map_collect)", tokens)>>)
           [] type_stack[2] = DeriveAnimatable ->
                Emitted(<<Api(ident, FALSE, "Some(Constant(into))", tokens)>>)
           [] OTHER -> EmptyArm
    ELSE Emitted(<<Api(ident, FALSE, "Some(into)", tokens)>>)

\* derive, DeriveType::Option => ..
OptionArm(ident, type_stack, tokens) ==
    IF Len(type_stack) = 3
    THEN CASE type_stack[2] = DeriveVec ->
                Emitted(<<Api(ident, FALSE, "Some(map_collect)", tokens)>>)
           [] type_stack[2] = DeriveAnimatable ->
                Emitted(<<Api(ident, FALSE, "Some(Constant(into))", tokens),
                          Api(ident, TRUE, "Some(Animated)", tokens)>>)
           [] OTHER -> EmptyArm
    ELSE Emitted(<<Api(ident, FALSE, "Some(into)", tokens)>>)

\* derive, DeriveType::Animatable => ..
AnimatableArm(ident, type_stack, tokens) ==
    IF Len(type_stack) = 3
    THEN IF type_stack[2] # DeriveVec THEN Panicked
         ELSE Emitted(<<Api(ident, FALSE, "Constant(map_collect)", tokens),
                        Api(ident, TRUE, "Animated", tokens)>>)
    ELSE Emitted(<<Api(ident, FALSE, "Constant(into)", tokens),
                   Api(ident, TRUE, "Animated", tokens)>>)

\* derive, after self.parse_field_type().
derive(ident, type_stack) ==
    LET c == content_type(type_stack)
        first == type_stack[1].k
    IN  IF c.panic THEN Panicked
        ELSE CASE first = "Vec" ->
                    IF Len(type_stack) # 2 THEN Panicked
                    ELSE Emitted(<<Api(ident, FALSE, "map_collect", c.tokens)>>)
               [] first = "Animatable" -> AnimatableArm(ident, type_stack, c.tokens)
               [] first = "Option" -> OptionArm(ident, type_stack, c.tokens)
               [] OTHER -> Emitted(<<Api(ident, FALSE, "into", c.tokens)>>)

\* ------------------------------------------------- attribute values (ir)

\* f32 keeps 24 significant bits; `value as f32` rounds an i32 to the nearest
\* such number, ties to the even mantissa.
F32MantissaBits == 24

RECURSIVE Pow2(_)
Pow2(n) == IF n = 0 THEN 1 ELSE 2 * Pow2(n - 1)

Abs(x) == IF x < 0 THEN 0 - x ELSE x

\* The spacing of the f32 numbers around a: the least power of two u with
\* a < u * 2^24.
RECURSIVE UlpFrom(_, _)
UlpFrom(a, u) == IF a < u * Pow2(F32MantissaBits) THEN u ELSE UlpFrom(a, 2 * u)
Ulp(a) == UlpFrom(a, 1)

\* Mutant: the cast truncates toward zero instead of rounding to nearest.
I32ToF32_Truncate(v) ==
    LET u == Ulp(Abs(v))
        m == (Abs(v) \div u) * u
    IN  IF v < 0 THEN 0 - m ELSE m

\* value as f32, for value: i32. An f32 whose value is a whole number is
\* written as that number.
I32ToF32(v) ==
    LET a == Abs(v)
        u == Ulp(a)
        q == a \div u
        r == a % u
        up == 2 * r > u \/ (2 * r = u /\ q % 2 = 1)
        m == (IF up THEN q + 1 ELSE q) * u
    IN  IF v < 0 THEN 0 - m ELSE m

\* Arguments handed to setters and conversions, tagged with their Rust type.
I32Samples == {100, 0 - 16777217, 16777216, 16777217, 33554435}
F32Samples == {1, 16777218}
I32Args == { [ty |-> "i32", v |-> n] : n \in I32Samples }
F32Args == { [ty |-> "f32", v |-> x] : x \in F32Samples }
Numbers == I32Args \cup F32Args
Names == { [ty |-> "name", v |-> s] : s \in {"", "r1"} }

\* Measurement(pub f32, pub Option<Unit>), Angle::deg(f32)
Measurement(f) == [f |-> f, unit |-> "None"]
AngleDeg(f) == [deg |-> f]

\* enum Animatable<T> { Constant(T), Animated(String) }
Constant(v) == [tag |-> "Constant", v |-> v]
Animated(name) == [tag |-> "Animated", name |-> name]

\* From<f32> / From<i32> for Measurement and for Angle
MeasurementFrom(arg) ==
    IF arg.ty = "i32" THEN Measurement(I32ToF32(arg.v)) ELSE Measurement(arg.v)
AngleFrom(arg) ==
    IF arg.ty = "i32" THEN AngleDeg(I32ToF32(arg.v)) ELSE AngleDeg(arg.v)

\* From<(X, Y, W, H)> for ViewBox
ViewBoxFrom(value) ==
    [minx |-> Constant(MeasurementFrom(value[1])),
     miny |-> Constant(MeasurementFrom(value[2])),
     width |-> Constant(MeasurementFrom(value[3])),
     height |-> Constant(MeasurementFrom(value[4])),
     aspect |-> None]

ViewBoxArgs ==
    { [ty |-> "tuple4", v |-> <<x, x, w, w>>] :
          x \in {[ty |-> "i32", v |-> 0], [ty |-> "f32", v |-> 1]},
          w \in {[ty |-> "i32", v |-> 100], [ty |-> "i32", v |-> 33554435]} }

\* content_type: From<V>, v.into()
Into(content, arg) ==
    CASE content = <<"Measurement">> -> MeasurementFrom(arg)
      [] content = <<"ViewBox">> -> ViewBoxFrom(arg.v)

ArgsInto(content) ==
    CASE content = <<"Measurement">> -> Numbers
      [] content = <<"ViewBox">> -> ViewBoxArgs

\* From<(W, H)> for Layer
LayerFrom(value) ==
    [width |-> Constant(MeasurementFrom(value[1])),
     height |-> Constant(MeasurementFrom(value[2])),
     viewbox |-> None]

\* --------------------------------------------- a Layer and its setters

\* struct Layer, #[derive(Dsl)]: its fields and their types.
LayerFields ==
    [width |-> <<"Animatable", "Measurement">>,
     height |-> <<"Animatable", "Measurement">>,
     viewbox |-> <<"Option", "Animatable", "ViewBox">>]

FieldNames == DOMAIN LayerFields

\* derive_api: the setters generated for field f.
ApisOf(f) ==
    LET apis == derive(f, parse_field_type(LayerFields[f])).apis
    IN  { apis[i] : i \in 1..Len(apis) }

\* What the body of a generated setter assigns to self.<field>.
SetterValue(api, arg) ==
    CASE api.body = "into" -> Into(api.content, arg)
      [] api.body = "Some(into)" -> Some(Into(api.content, arg))
      [] api.body = "Constant(into)" -> Constant(Into(api.content, arg))
      [] api.body = "Some(Constant(into))" -> Some(Constant(Into(api.content, arg)))
      [] api.body = "Animated" -> Animated(arg.v)
      [] api.body = "Some(Animated)" -> Some(Animated(arg.v))

NoCall(initial) == [made |-> FALSE, animated |-> FALSE, arg |-> Unused, init |-> initial]

LayerSizes == {[ty |-> "i32", v |-> 100], [ty |-> "f32", v |-> 1]}

\* Layer::from((w, h))
NewLayer ==
    /\ layer = Unused
    /\ \E w \in LayerSizes, h \in LayerSizes :
          /\ layer' = LayerFrom(<<w, h>>)
          /\ lastSet' = [f \in FieldNames |-> NoCall(LayerFrom(<<w, h>>)[f])]
    /\ UNCHANGED <<pool, generator, devVars, frames, field, call>>

\* Mutant: the setter of a field also resets the viewbox.
Setter_ResetViewbox(f, api, arg) ==
    /\ layer' = [layer EXCEPT ![f] = SetterValue(api, arg), !.viewbox = None]
    /\ lastSet' = [lastSet EXCEPT ![f] = [made |-> TRUE, animated |-> api.animated,
                                          arg |-> arg, init |-> @.init]]

\* layer.<f>(arg) / layer.<f>_animated(arg): mut self, self.<f> = ..; self
Setter(f, api, arg) ==
    /\ layer' = [layer EXCEPT ![f] = SetterValue(api, arg)]
    /\ lastSet' = [lastSet EXCEPT ![f] = [made |-> TRUE, animated |-> api.animated,
                                          arg |-> arg, init |-> @.init]]

Set ==
    /\ layer # Unused
    /\ \E f \in FieldNames :
          \E api \in { a \in ApisOf(f) : ~a.animated } :
             \E arg \in ArgsInto(api.content) : Setter(f, api, arg)
    /\ UNCHANGED <<pool, generator, devVars, frames, field, call>>

SetAnimated ==
    /\ layer # Unused
    /\ \E f \in FieldNames :
          \E api \in { a \in ApisOf(f) : a.animated } :
             \E arg \in Names : Setter(f, api, arg)
    /\ UNCHANGED <<pool, generator, devVars, frames, field, call>>

LayerNext ==
    \/ NewLayer
    \/ Set
    \/ SetAnimated

SpecLayer == Init /\ [][LayerNext]_vars

\* ------------------------------------------------------------------- C13

\* The Animatable a field holds (inside the Some of an Option field).
Held(f) == IF LayerFields[f][1] = "Option" THEN layer[f].v ELSE layer[f]

\* The numbers a constant argument is made of, and the Measurements of the
\* payload built from it, in the same order.
NumbersOf(arg) == IF arg.ty = "tuple4" THEN arg.v ELSE <<arg>>
PayloadNumbers(p, arg) ==
    IF arg.ty = "tuple4" THEN <<p.minx.v, p.miny.v, p.width.v, p.height.v>> ELSE <<p>>

RECURSIVE OddPart(_)
OddPart(a) == IF a = 0 THEN 0 ELSE IF a % 2 = 0 THEN OddPart(a \div 2) ELSE a

\* x is a value of f32; m is a value of f32 nearest to v.
Representable(x) == OddPart(Abs(x)) < Pow2(F32MantissaBits)
NearestF32(m, v) ==
    /\ Representable(m)
    /\ \A c \in (v - Ulp(Abs(v)))..(v + Ulp(Abs(v))) :
          Representable(c) => Abs(m - v) <= Abs(c - v)
ExactInF32(n) == n.ty = "f32" \/ Abs(n.v) <= Pow2(F32MantissaBits)

AnimatedHeld(f) ==
    /\ Held(f).tag = "Animated"
    /\ Held(f).name = lastSet[f].arg.v
    /\ "v" \notin DOMAIN Held(f)

\* C13 (as stated): after the constant setter is called with v the field
\* holds Constant(v) and reads back exactly v; after the animated setter it
\* holds Animated(name) with exactly that name and no constant payload.
C13_ExactRoundTrip ==
    layer # Unused =>
        \A f \in FieldNames :
            lastSet[f].made =>
                IF lastSet[f].animated THEN AnimatedHeld(f)
                ELSE /\ Held(f).tag = "Constant"
                     /\ \A i \in 1..Len(NumbersOf(lastSet[f].arg)) :
                           PayloadNumbers(Held(f).v, lastSet[f].arg)[i]
                               = Measurement(NumbersOf(lastSet[f].arg)[i].v)

\* C13 (amended): after the constant setter is called with v the field holds
\* Constant(T::from(v)): every number of the payload is the f32 nearest to
\* the number given, without a unit, and is exactly that number when it was
\* given as f32 or is an i32 of magnitude at most 2^24; after the animated
\* setter the field holds Animated(name) with exactly that name, the empty
\* name included, and no constant payload.
C13_ConvertedRoundTrip ==
    layer # Unused =>
        \A f \in FieldNames :
            lastSet[f].made =>
                IF lastSet[f].animated THEN AnimatedHeld(f)
                ELSE /\ Held(f).tag = "Constant"
                     /\ \A i \in 1..Len(NumbersOf(lastSet[f].arg)) :
                           LET m == PayloadNumbers(Held(f).v, lastSet[f].arg)[i]
                               n == NumbersOf(lastSet[f].arg)[i]
                           IN  /\ m.unit = "None"
                               /\ NearestF32(m.f, n.v)
                               /\ ExactInF32(n) => m.f = n.v

C13_Witness ==
    /\ layer # Unused
    /\ lastSet.width.made /\ ~lastSet.width.animated
    /\ lastSet.width.arg = [ty |-> "i32", v |-> 33554435]
    /\ layer.width = Constant(Measurement(33554436))
    /\ lastSet.height.made /\ lastSet.height.animated
    /\ layer.height = Animated("")
    /\ lastSet.viewbox.made /\ ~lastSet.viewbox.animated

\* ------------------------------------------------------------------- C14

LeafKinds == {"str", "String", "animated"}

\* The one instruction a leaf stands for.
LeafInstruction(d) ==
    IF d.k = "animated" THEN [op |-> "Animated", s |-> d.name, n |-> 0]
    ELSE [op |-> "String", s |-> d.s, n |-> 0]

\* C14: the draw of a leaf, wherever in a description it is reached, appends
\* exactly one instruction to the log and changes nothing else in it: a
\* String or &str appends one String instruction carrying its text, animated
\* appends one Animated instruction carrying its register name; neither is a
\* scope open or close.
C14_LeafAppendsOne ==
    [][Drawing(LeafKinds) =>
           /\ generator'[1] = generator[1] \o <<LeafInstruction(frames[1].d)>>
           /\ generator'[1][Len(generator'[1])].op \notin {"Open", "Pop"}
           /\ frames' = Tail(frames)]_vars

C14_Witness ==
    /\ phase[1] = "Drawing"
    /\ frames # << >>
    /\ generator[1] = << [op |-> "Open", s |-> Font1.id, n |-> 0],
                         [op |-> "String", s |-> "hello", n |-> 0],
                         [op |-> "Animated", s |-> "r1", n |-> 0] >>

\* ------------------------------------------------------------------- C15

\* The value a call wraps for field f: Animatable-wrapped, and Option-wrapped
\* where the field is an Option.
WrappedFor(f, c) ==
    LET a == IF c.animated THEN Animated(c.arg.v)
             ELSE IF f = "viewbox" THEN Constant(ViewBoxFrom(c.arg.v))
             ELSE Constant(MeasurementFrom(c.arg))
    IN  IF f = "viewbox" THEN Some(a) ELSE a

\* C15: a call of the setter or the _animated setter generated for field f
\* replaces f by the new wrapped value and leaves every other field as it
\* was; so after any sequence of calls each field holds the value of the last
\* call made for it, or its initial value if none was made.
C15_SetterReplacesOneField ==
    /\ [][layer # Unused =>
              \E f \in FieldNames :
                  /\ lastSet'[f].made
                  /\ layer'[f] = WrappedFor(f, lastSet'[f])
                  /\ \A g \in FieldNames \ {f} :
                        layer'[g] = layer[g] /\ lastSet'[g] = lastSet[g]]_vars
    /\ [](layer # Unused =>
              \A f \in FieldNames :
                  layer[f] = IF lastSet[f].made THEN WrappedFor(f, lastSet[f])
                             ELSE lastSet[f].init)

C15_Witness ==
    /\ layer # Unused
    /\ lastSet.width.made /\ layer.width = Animated("r1")
    /\ ~lastSet.height.made /\ layer.height = Constant(Measurement(100))
    /\ lastSet.viewbox.made /\ layer.viewbox.some
    /\ layer.viewbox.v.tag = "Constant"

\* ------------------------------------------------------------ MapCollect

\* Most values handed to one map_collect call.
MaxItems == 3
\* tuple_map_collect!(Item, A0 .. A20): tuples of 2 to 21 values.
MaxCollectArity == 21

Items == {"Measurement", "Angle"}

ItemFrom(item, arg) == IF item = "Measurement" THEN MeasurementFrom(arg) ELSE AngleFrom(arg)

\* impl<F, T> MapCollect<T> for F where T: From<F>: vec![self.into()]
MapCollectOne(item, arg) == <<ItemFrom(item, arg)>>

\* Mutant: the macro leaves $header out of the vec!.
MapCollectTuple_NoHeader(item, args) ==
    [i \in 1..(Len(args) - 1) |-> ItemFrom(item, args[i + 1])]

\* tuple_map_collect!: vec![$header.into(), $($tail.into()),+]
MapCollectTuple(item, args) == [i \in 1..Len(args) |-> ItemFrom(item, args[i])]

\* impl MapCollect<Measurement> / MapCollect<Angle> for Vec<f32> / Vec<i32>:
\* self.into_iter().map(..).collect()
RECURSIVE MapCollectVecFrom(_, _, _, _)
MapCollectVecFrom(item, vs, i, out) ==
    IF i > Len(vs) THEN out
    ELSE MapCollectVecFrom(item, vs, i + 1,
             Append(out, IF item = "Measurement" THEN MeasurementFrom(vs[i])
                         ELSE IF vs[i].ty = "i32" THEN AngleDeg(I32ToF32(vs[i].v))
                         ELSE AngleDeg(vs[i].v)))

MapCollectVec(item, vs) == MapCollectVecFrom(item, vs, 1, << >>)

Tuples == UNION { [1..n -> Numbers] : n \in 2..Min(MaxItems, MaxCollectArity) }
Vecs == UNION { [1..n -> I32Args] \cup [1..n -> F32Args] : n \in 0..MaxItems }

\* A conversion is called with nothing else in progress; `call` keeps its
\* arguments and what it returned.
CollectOne ==
    /\ call = Unused
    /\ \E item \in Items, arg \in Numbers :
          call' = [fn |-> "map_collect", impl |-> "one", item |-> item,
                   args |-> <<arg>>, result |-> MapCollectOne(item, arg)]
    /\ UNCHANGED <<pool, generator, devVars, frames, field, layer, lastSet>>

CollectTuple ==
    /\ call = Unused
    /\ \E item \in Items, args \in Tuples :
          call' = [fn |-> "map_collect", impl |-> "tuple", item |-> item,
                   args |-> args, result |-> MapCollectTuple(item, args)]
    /\ UNCHANGED <<pool, generator, devVars, frames, field, layer, lastSet>>

CollectVec ==
    /\ call = Unused
    /\ \E item \in Items, vs \in Vecs :
          call' = [fn |-> "map_collect", impl |-> "Vec", item |-> item,
                   args |-> vs, result |-> MapCollectVec(item, vs)]
    /\ UNCHANGED <<pool, generator, devVars, frames, field, layer, lastSet>>

CollectNext ==
    \/ CollectOne
    \/ CollectTuple
    \/ CollectVec

SpecCollect == Init /\ [][CollectNext]_vars

\* ------------------------------------------------------------------- C16

\* C16: map_collect on a single value yields a one-element sequence holding
\* its conversion; on a tuple or a Vec of k values it yields exactly k items,
\* the i-th being the conversion of the i-th value given.
C16_CollectKeepsCountAndOrder ==
    call # Unused =>
        /\ call.impl = "one" => Len(call.result) = 1
        /\ Len(call.result) = Len(call.args)
        /\ \A i \in 1..Len(call.args) :
              call.result[i] = ItemFrom(call.item, call.args[i])

C16_Witness ==
    /\ call # Unused
    /\ call.impl = "tuple"
    /\ call.item = "Angle"
    /\ call.args = << [ty |-> "i32", v |-> 100], [ty |-> "f32", v |-> 1],
                      [ty |-> "i32", v |-> 16777217] >>
    /\ call.result = <<AngleDeg(100), AngleDeg(1), AngleDeg(16777216)>>

\* ------------------------------------------------- deriving one field

\* DeriveFiled::new(field), about to run derive: nothing parsed yet.
NewField ==
    /\ field = Unused
    /\ \E ty \in FieldTypes :
          field' = [ident |-> "f", root_type |-> ty, type_stack |-> << >>,
                    current |-> 1, stage |-> "parsing", out |-> Emitted(<< >>)]
    /\ UNCHANGED <<pool, generator, devVars, frames, layer, lastSet, call>>

\* One turn of the loop of parse_field_type.
ParseTurn ==
    /\ field # Unused
    /\ field.stage = "parsing"
    /\ LET r == ParseIter(field.root_type, field.current, field.type_stack)
       IN  field' = [field EXCEPT !.type_stack = r.type_stack,
                                  !.current = r.current,
                                  !.stage = IF r.current = 0 THEN "parsed" ELSE "parsing"]
    /\ UNCHANGED <<pool, generator, devVars, frames, layer, lastSet, call>>

\* The rest of derive: content_type and the match on the first element.
Derive ==
    /\ field # Unused
    /\ field.stage = "parsed"
    /\ field' = [field EXCEPT !.stage = "derived",
                              !.out = derive(field.ident, field.type_stack)]
    /\ UNCHANGED <<pool, generator, devVars, frames, layer, lastSet, call>>

DeriveNext ==
    \/ NewField
    \/ ParseTurn
    \/ Derive

SpecDerive == Init /\ [][DeriveNext]_vars

Parsed == field # Unused /\ field.stage \in {"parsed", "derived"}
Derived == field # Unused /\ field.stage = "derived"
InStack(k) == \E i \in 1..Len(field.type_stack) : field.type_stack[i] = k

\* ------------------------------------------------------------------- C17

\* The field's type is Animatable<T>, Vec<Animatable<T>> or Option<Animatable<T>>.
AnimatableShape ==
    \/ field.root_type[1] = "Animatable"
    \/ /\ field.root_type[1] \in {"Vec", "Option"}
       /\ field.root_type[2] = "Animatable"

\* C17 (as stated): for a field of type Animatable<T>, Vec<Animatable<T>> or
\* Option<Animatable<T>>, parse_field_type pushes DeriveType::Animatable onto
\* the type stack.
C17_AnimatableInThreeShapes ==
    (Parsed /\ AnimatableShape) => InStack(DeriveAnimatable)

\* What the code does: Animatable is pushed for Animatable<T> and
\* Option<Animatable<T>>; a Vec<Animatable<T>> is parsed as a Vec of the
\* unknown type Animatable<T>.
C17_AnimatableInTwoShapes ==
    Parsed =>
        /\ InStack(DeriveAnimatable) <=>
              \/ field.root_type[1] = "Animatable"
              \/ field.root_type[1] = "Option" /\ field.root_type[2] = "Animatable"
        /\ (field.root_type[1] = "Vec" /\ field.root_type[2] = "Animatable") =>
              field.type_stack = <<DeriveVec, Unknown(Tail(field.root_type))>>

\* ------------------------------------------------------------------- C18

\* C18: for every field type nested from Option, Vec, Animatable and other
\* types, parse_field_type ends, after at most one turn per level of the
\* type, with a stack of 1 to 3 elements of which the last and only the last
\* is Unknown; a stack that starts with Vec has exactly 2 elements and a
\* 3-element stack that starts with Animatable has Vec second; so no
\* assertion or panic of content_type and derive fires.
C18_StackShape ==
    /\ (field # Unused /\ field.stage = "parsing") =>
          /\ field.current \in 1..Len(field.root_type)
          /\ Len(field.type_stack) = field.current - 1
    /\ Parsed =>
          LET s == field.type_stack
          IN  /\ Len(s) \in 1..3
              /\ \A i \in 1..Len(s) : (s[i].k = "Unknown") <=> (i = Len(s))
              /\ s[1] = DeriveVec => Len(s) = 2
              /\ (s[1] = DeriveAnimatable /\ Len(s) = 3) => s[2] = DeriveVec
              /\ ~content_type(s).panic
    /\ Derived => ~field.out.panic

C18_Witness ==
    /\ Derived
    /\ field.root_type = <<"Animatable", "Vec", "Vec", "Measurement">>
    /\ field.type_stack = <<DeriveAnimatable, DeriveVec, Unknown(<<"Vec", "Measurement">>)>>
    /\ ~field.out.panic

\* ------------------------------------------------------------------- C19

Setters(suffix) ==
    { i \in 1..Len(field.out.apis) : field.out.apis[i].animated = suffix }

MaxList == 2

\* enum Svalue: Number(f32), String(String), ListOf(Vec<Svalue>)
SNumber(v) == [tag |-> "Number", num |-> v]
SString(v) == [tag |-> "String", str |-> v]
ListOf(v) == [tag |-> "ListOf", list |-> v]

Ok(v) == [ok |-> TRUE, v |-> v]
Err(e) == [ok |-> FALSE, v |-> e]

\* A Rust type converted to or from Svalue: <<"f32">>, <<"String">>,
\* <<"Vec", "f32">> for Vec<f32>, <<"Vec", "Vec", "f32">> for Vec<Vec<f32>>, ..
Targets ==
    { <<"f32">>, <<"String">>, <<"Vec", "f32">>, <<"Vec", "String">>,
      <<"Vec", "Vec", "f32">>, <<"Vec", "Vec", "String">> }

SeqsUpTo(S) == UNION { [1..n -> S] : n \in 0..MaxList }

RECURSIVE ValuesOf(_)
ValuesOf(ty) ==
    CASE ty = <<"f32">> -> {1, 2}
      [] ty = <<"String">> -> {"x", "y"}
      [] OTHER -> SeqsUpTo(ValuesOf(Tail(ty)))

SLeaves == {SNumber(1), SString("x")}
SLists == { ListOf(v) : v \in SeqsUpTo(SLeaves) }
Svalues == SLeaves \cup { ListOf(v) : v \in SeqsUpTo(SLeaves \cup SLists) }

\* From<f32>, From<String>, From<Vec<T>> for Svalue
RECURSIVE SvalueFrom(_, _)
SvalueFrom(ty, value) ==
    CASE ty = <<"f32">> -> SNumber(value)
      [] ty = <<"String">> -> SString(value)
      [] OTHER -> ListOf([i \in 1..Len(value) |-> SvalueFrom(Tail(ty), value[i])])

RECURSIVE TryFromSvalue(_, _)
RECURSIVE CollectResults(_, _, _, _)

\* Mutant: a failing element makes the conversion return the whole list.
CollectResults_WholeList(ty, v, i, out) ==
    IF i > Len(v) THEN Ok(out)
    ELSE LET r == TryFromSvalue(ty, v[i])
         IN  IF r.ok THEN CollectResults(ty, v, i + 1, Append(out, r.v))
             ELSE Err(ListOf(v))

\* v.into_iter().map(|v| v.try_into()).collect::<Result<Vec<T>, Svalue>>():
\* the items in order, or the first Err met.
CollectResults(ty, v, i, out) ==
    IF i > Len(v) THEN Ok(out)
    ELSE LET r == TryFromSvalue(ty, v[i])
         IN  IF r.ok THEN CollectResults(ty, v, i + 1, Append(out, r.v))
             ELSE r

\* TryFrom<Svalue> for f32, for String, for Vec<T>
TryFromSvalue(ty, value) ==
    CASE ty = <<"f32">> -> IF value.tag = "Number" THEN Ok(value.num) ELSE Err(value)
      [] ty = <<"String">> -> IF value.tag = "String" THEN Ok(value.str) ELSE Err(value)
      [] OTHER -> IF value.tag = "ListOf"
                  THEN CollectResults(Tail(ty), value.list, 1, << >>)
                  ELSE Err(value)

\* Svalue::from(value) and back with try_from.
RoundTrip ==
    /\ call = Unused
    /\ \E ty \in Targets : \E value \in ValuesOf(ty) :
          call' = [fn |-> "round_trip", ty |-> ty, arg |-> value,
                   result |-> TryFromSvalue(ty, SvalueFrom(ty, value))]
    /\ UNCHANGED <<pool, generator, devVars, frames, field, layer, lastSet>>

\* T::try_from(value) on any Svalue.
TryFrom ==
    /\ call = Unused
    /\ \E ty \in Targets : \E value \in Svalues :
          call' = [fn |-> "try_from", ty |-> ty, arg |-> value,
                   result |-> TryFromSvalue(ty, value)]
    /\ UNCHANGED <<pool, generator, devVars, frames, field, layer, lastSet>>

SvalueNext ==
    \/ RoundTrip
    \/ TryFrom

SpecSvalue == Init /\ [][SvalueNext]_vars

\* ------------------------------------------------------------------- C20

\* value is what Svalue::from gives for some value of type ty.
RECURSIVE HasType(_, _)
HasType(ty, value) ==
    CASE ty = <<"f32">> -> value.tag = "Number"
      [] ty = <<"String">> -> value.tag = "String"
      [] OTHER -> /\ value.tag = "ListOf"
                  /\ \A i \in 1..Len(value.list) : HasType(Tail(ty), value.list[i])

\* The variant of value is not the one ty converts from.
OtherVariant(ty, value) ==
    CASE ty = <<"f32">> -> value.tag # "Number"
      [] ty = <<"String">> -> value.tag # "String"
      [] OTHER -> value.tag # "ListOf"

\* The first element of list v that is not convertible to ty.
FirstBad(ty, v) ==
    v[CHOOSE i \in 1..Len(v) :
          /\ ~HasType(ty, v[i])
          /\ \A j \in 1..(i - 1) : HasType(ty, v[j])]

\* The first non-convertible value met going down into e, depth first.
RECURSIVE DeepFirstBad(_, _)
DeepFirstBad(ty, e) ==
    IF OtherVariant(ty, e) THEN e
    ELSE DeepFirstBad(Tail(ty), FirstBad(Tail(ty), e.list))

RoundTripsAndKeepsVariant ==
    /\ call.fn = "round_trip" => (call.result.ok /\ call.result.v = call.arg)
    /\ (call.fn = "try_from" /\ HasType(call.ty, call.arg)) =>
          (call.result.ok /\ SvalueFrom(call.ty, call.result.v) = call.arg)
    /\ (call.fn = "try_from" /\ OtherVariant(call.ty, call.arg)) =>
          (~call.result.ok /\ call.result.v = call.arg)

BadList ==
    /\ call.fn = "try_from"
    /\ ~OtherVariant(call.ty, call.arg)
    /\ ~HasType(call.ty, call.arg)

\* C20 (as stated): f32, String and Vec<T> values converted into Svalue and
\* back come back Ok and equal; try_from on another variant returns Err with
\* that same Svalue; try_from to Vec<T> on a ListOf with a non-convertible
\* element returns Err with the first non-convertible element of the list.
C20_ErrIsFirstBadElement ==
    call # Unused =>
        /\ RoundTripsAndKeepsVariant
        /\ BadList =>
              /\ ~call.result.ok
              /\ call.result.v = FirstBad(Tail(call.ty), call.arg.list)

\* C20 (amended): as stated, except that the Err of a list with a
\* non-convertible element carries what the conversion of the first such
\* element returned: that element itself when T is f32 or String, and for a
\* nested Vec<Vec<U>> the first non-convertible value inside that element;
\* it is never the whole list.
C20_ErrIsFirstFailure ==
    call # Unused =>
        /\ RoundTripsAndKeepsVariant
        /\ BadList =>
              /\ ~call.result.ok
              /\ call.result.v = DeepFirstBad(call.ty, call.arg)
              /\ call.result.v # call.arg
              /\ Len(call.ty) = 2 =>
                    call.result.v = FirstBad(Tail(call.ty), call.arg.list)

C20_Witness ==
    /\ call # Unused
    /\ call.fn = "try_from"
    /\ call.ty = <<"Vec", "Vec", "f32">>
    /\ call.arg = ListOf(<<ListOf(<<SNumber(1)>>), ListOf(<<SNumber(1), SString("x")>>)>>)
    /\ ~call.result.ok
    /\ call.result.v = SString("x")

====
